---- MODULE Spec2Model ----
(***************************************************************************)
(* A model of four parts of colmena:                                       *)
(*   - command/apply.rs          the apply command's run                   *)
(*   - command/test_progress.rs  the job tree exercised by test-progress   *)
(*   - nix/host/local.rs         Local::activate and Local::upload_keys    *)
(*   - nix/key.rs                KeySource::try_from and Key's accessors   *)
(* Each part has its own specification over its own variables; the other   *)
(* parts' variables stay at their idle values.                             *)
(***************************************************************************)
EXTENDS Integers, Sequences, FiniteSets, TLC

VARIABLES
    \* ---- command/apply.rs: run
    a_pc,        \* position in run
    a_args,      \* the parsed command line (local_args)
    a_nTargets,  \* targets.len(), -1 before select_nodes
    a_options,   \* the Options handed to deployment.set_options
    a_applyLimit,\* ParallelismLimit's apply limit, -1 before it is set
    a_evalLimit, \* EvaluationNodeLimit, "unset" before it is set
    a_exec,      \* deployment.execute(): "idle", "running", "Ok", "Err"
    a_out,       \* output.run_until_completion(): "idle", "running", "Ok", "Err"
    a_nodeJobs,  \* number of nodes for which execute has emitted job events
    a_ret,       \* run's result, "none" while running
    a_exit,      \* the process exit code forced by quit::with_code, -1 if none
    \* ---- command/test_progress.rs: run
    p_pc,        \* position of each job's future: meta, eval, build
    p_i,         \* the Evaluate body's loop counter
    p_res,       \* each job body's result, "none" until it returns
    p_events,    \* the progress bus: the sequence of events emitted
    p_ret,       \* run's result
    \* ---- nix/host/local.rs: Local::activate
    h_pc,        \* position in activate
    h_goal,      \* the goal argument
    h_profile,   \* the profile argument (a store path)
    h_system,    \* what the system profile points at
    h_before,    \* what it pointed at when activate was called
    h_cmds,      \* the commands spawned so far, in order
    h_running,   \* the command that is running, "none" if none
    h_ret,       \* activate's result, "none" while running
    \* ---- nix/host/local.rs: Local::upload_keys
    u_pc,        \* position in upload_keys / upload_key
    u_job,       \* whether a JobHandle is attached (self.job)
    u_keys,      \* the key names of the map
    u_todo,      \* the names the iteration has not yet yielded
    u_cur,       \* the key being uploaded, 0 if none
    u_tried,     \* the names upload_key was called for, in order
    u_done,      \* the names whose upload succeeded
    u_ret,       \* upload_keys' result, kind "none" while running
    \* ---- nix/key.rs
    k_pc,        \* "sources", "key", "rejected"
    k_sources,   \* the KeySources decoded from the configuration
    k_rest,      \* the other fields decoded: destDir, user, group, permissions
    k_key,       \* the Key, once built
    k_call,      \* the accessor last called on the key, "none" if none
    k_out        \* what that accessor returned

applyVars == <<a_pc, a_args, a_nTargets, a_options, a_applyLimit, a_evalLimit,
               a_exec, a_out, a_nodeJobs, a_ret, a_exit>>
progVars == <<p_pc, p_i, p_res, p_events, p_ret>>
hostVars == <<h_pc, h_goal, h_profile, h_system, h_before, h_cmds, h_running,
              h_ret>>
uploadVars == <<u_pc, u_job, u_keys, u_todo, u_cur, u_tried, u_done, u_ret>>
keyVars == <<k_pc, k_sources, k_rest, k_key, k_call, k_out>>
vars == <<applyVars, progVars, hostVars, uploadVars, keyVars>>

None == "None"

(***************************************************************************)
(* Goal                                                                    *)
(***************************************************************************)
Goals == {"build", "push", "switch", "boot", "test", "dry-activate", "keys"}

\* Goal::should_switch_profile: true for switch and boot.
should_switch_profile(goal) == goal \in {"switch", "boot"}

\* Goal::is_real_goal: the goals that name an activation mode.
is_real_goal(goal) == goal \in {"switch", "boot", "test", "dry-activate"}

(***************************************************************************)
(* Idle values of each part                                                *)
(***************************************************************************)
ApplyIdle ==
    /\ a_pc = "idle" /\ a_args = None /\ a_nTargets = -1 /\ a_options = None
    /\ a_applyLimit = -1 /\ a_evalLimit = [kind |-> "unset", n |-> 0]
    /\ a_exec = "idle" /\ a_out = "idle" /\ a_nodeJobs = 0 /\ a_ret = "none" /\ a_exit = -1

ProgIdle ==
    /\ p_pc = [j \in {"meta", "eval", "build"} |-> "idle"]
    /\ p_i = 0
    /\ p_res = [j \in {"meta", "eval", "build"} |-> "none"]
    /\ p_events = <<>>
    /\ p_ret = "none"

HostIdle ==
    /\ h_pc = "idle" /\ h_goal = None /\ h_profile = None /\ h_system = None
    /\ h_before = None
    /\ h_cmds = <<>> /\ h_running = "none" /\ h_ret = "none"

UploadIdle ==
    /\ u_pc = "idle" /\ u_job = FALSE /\ u_keys = {} /\ u_todo = {} /\ u_cur = 0
    /\ u_tried = <<>> /\ u_done = {}
    /\ u_ret = [kind |-> "none", key |-> 0, at |-> "-"]

KeyIdle ==
    /\ k_pc = "idle" /\ k_sources = None /\ k_rest = None /\ k_key = None
    /\ k_call = "none" /\ k_out = None

(***************************************************************************)
(* command/apply.rs: run                                                   *)
(***************************************************************************)
MaxParallel == 3
MaxTargets == 3
MaxEvalLimit == 1

\* The flags of register_deploy_args that take no value.
FlagNames == {"keep-result", "verbose", "no-keys", "no-substitutes", "no-gzip",
              "force-replace-unknown-profiles"}

\* What clap hands to run: validated by the validators of register_deploy_args
\* and by possible_values of the goal.
ArgMatches ==
    [flags : SUBSET FlagNames,
     goal : Goals,
     parallel : 0..MaxParallel,
     evalNodeLimit : {"auto"} \cup {ToString(n) : n \in 0..MaxEvalLimit},
     on : BOOLEAN]

is_present(args, flag) == flag \in args.flags

\* Options::default() followed by the setters of run. create_gc_roots is only
\* ever set to true.
BuildOptions(args) ==
    [substituters_push |-> ~is_present(args, "no-substitutes"),
     gzip |-> ~is_present(args, "no-gzip"),
     upload_keys |-> ~is_present(args, "no-keys"),
     force_replace_unknown_profiles |->
         is_present(args, "force-replace-unknown-profiles"),
     create_gc_roots |-> is_present(args, "keep-result")]

\* A run that leaves the --no-keys check out.
NoKeysConflictNever(args) == FALSE

\* The condition under which run quits with code 1.
NoKeysConflict(args) == is_present(args, "no-keys") /\ args.goal = "keys"

\* A limit handed on as given, 0 included.
ApplyLimitRaw(parallel, n_targets) == parallel

\* The value handed to set_apply_limit.
ApplyLimit(parallel, n_targets) == IF parallel = 0 THEN n_targets ELSE parallel

\* number.parse::<usize>().unwrap() on a string the validator accepted.
ParseUsize(str) == CHOOSE n \in 0..(MaxEvalLimit + 1) : ToString(n) = str

\* The EvaluationNodeLimit chosen from --eval-node-limit.
EvalNodeLimit(arg) ==
    IF arg = "auto" THEN [kind |-> "Heuristic", n |-> 0]
    ELSE LET number == ParseUsize(arg)
         IN  IF number = 0 THEN [kind |-> "None", n |-> 0]
             ELSE [kind |-> "Manual", n |-> number]

\* A join that is ready with the first future to complete.
JoinEither == a_exec \in {"Ok", "Err"} \/ a_out \in {"Ok", "Err"}

\* tokio::join!: ready when both futures have completed.
JoinBoth == a_exec \in {"Ok", "Err"} /\ a_out \in {"Ok", "Err"}

\* deployment?; output?; Ok(())
RunResult(deployment, output) ==
    IF deployment = "Err" THEN "ErrDeployment"
    ELSE IF output = "Err" THEN "ErrOutput" ELSE "Ok"

\* run is entered with the arguments clap parsed.
ApplyInit ==
    /\ a_pc = "hive" /\ a_args \in ArgMatches /\ a_nTargets = -1
    /\ a_options = None /\ a_applyLimit = -1
    /\ a_evalLimit = [kind |-> "unset", n |-> 0]
    /\ a_exec = "idle" /\ a_out = "idle" /\ a_nodeJobs = 0
    /\ a_ret = "none" /\ a_exit = -1
    /\ ProgIdle /\ HostIdle /\ UploadIdle /\ KeyIdle

\* run touches nothing of the other parts.
ApplyFrame == UNCHANGED <<progVars, hostVars, uploadVars, keyVars>>

ApplyReturn(r) == a_pc' = "returned" /\ a_ret' = r

\* util::hive_from_args(local_args).await?
LoadHive ==
    /\ ApplyFrame
    /\ a_pc = "hive"
    /\ \E ok \in BOOLEAN :
         IF ok THEN a_pc' = "filter" /\ a_ret' = a_ret
         ELSE ApplyReturn("ErrHive")
    /\ UNCHANGED <<a_args, a_nTargets, a_options, a_applyLimit, a_evalLimit,
                   a_exec, a_out, a_nodeJobs, a_exit>>

\* NodeFilter::new(f)? when --on is given
ParseFilter ==
    /\ ApplyFrame
    /\ a_pc = "filter"
    /\ \E ok \in BOOLEAN :
         IF ok \/ ~a_args.on THEN a_pc' = "select" /\ a_ret' = a_ret
         ELSE ApplyReturn("ErrFilter")
    /\ UNCHANGED <<a_args, a_nTargets, a_options, a_applyLimit, a_evalLimit,
                   a_exec, a_out, a_nodeJobs, a_exit>>

\* hive.select_nodes(..).await?, then Deployment::new and set_options
SelectNodes ==
    /\ ApplyFrame
    /\ a_pc = "select"
    /\ \/ /\ \E n \in 0..MaxTargets : a_nTargets' = n
          /\ a_options' = BuildOptions(a_args)
          /\ a_pc' = "check" /\ a_ret' = a_ret
       \/ /\ ApplyReturn("ErrSelect")
          /\ UNCHANGED <<a_nTargets, a_options>>
    /\ UNCHANGED <<a_args, a_applyLimit, a_evalLimit, a_exec, a_out,
                   a_nodeJobs, a_exit>>

\* The --no-keys check, then the limits, then both futures are handed to join!
Configure ==
    /\ ApplyFrame
    /\ a_pc = "check"
    /\ IF NoKeysConflict(a_args)
       THEN /\ a_pc' = "exited" /\ a_exit' = 1
            /\ UNCHANGED <<a_applyLimit, a_evalLimit, a_exec, a_out>>
       ELSE /\ a_applyLimit' = ApplyLimit(a_args.parallel, a_nTargets)
            /\ a_evalLimit' = EvalNodeLimit(a_args.evalNodeLimit)
            /\ a_exec' = "running" /\ a_out' = "running"
            /\ a_pc' = "join" /\ a_exit' = a_exit
    /\ UNCHANGED <<a_args, a_nTargets, a_options, a_nodeJobs, a_ret>>

\* deployment.execute() starts the jobs of one more node.
ExecNode ==
    /\ ApplyFrame
    /\ a_pc = "join" /\ a_exec = "running" /\ a_nodeJobs < a_nTargets
    /\ a_nodeJobs' = a_nodeJobs + 1
    /\ UNCHANGED <<a_pc, a_args, a_nTargets, a_options, a_applyLimit,
                   a_evalLimit, a_exec, a_out, a_ret, a_exit>>

\* deployment.execute() completes: Ok once every node was handled, or an error.
ExecFinish ==
    /\ ApplyFrame
    /\ a_pc = "join" /\ a_exec = "running"
    /\ \/ a_nodeJobs = a_nTargets /\ a_exec' = "Ok"
       \/ a_exec' = "Err"
    /\ UNCHANGED <<a_pc, a_args, a_nTargets, a_options, a_applyLimit,
                   a_evalLimit, a_out, a_nodeJobs, a_ret, a_exit>>

\* output.run_until_completion() fails while the engine may still be running.
OutputFail ==
    /\ ApplyFrame
    /\ a_pc = "join" /\ a_out = "running"
    /\ a_out' = "Err"
    /\ UNCHANGED <<a_pc, a_args, a_nTargets, a_options, a_applyLimit,
                   a_evalLimit, a_exec, a_nodeJobs, a_ret, a_exit>>

\* output.run_until_completion() drains the bus until the engine has closed it.
OutputFinish ==
    /\ ApplyFrame
    /\ a_pc = "join" /\ a_out = "running" /\ a_exec \in {"Ok", "Err"}
    /\ a_out' = "Ok"
    /\ UNCHANGED <<a_pc, a_args, a_nTargets, a_options, a_applyLimit,
                   a_evalLimit, a_exec, a_nodeJobs, a_ret, a_exit>>

\* join! returns both results; deployment?; output?; Ok(())
JoinReturn ==
    /\ ApplyFrame
    /\ a_pc = "join" /\ JoinBoth
    /\ ApplyReturn(RunResult(a_exec, a_out))
    /\ UNCHANGED <<a_args, a_nTargets, a_options, a_applyLimit, a_evalLimit,
                   a_exec, a_out, a_nodeJobs, a_exit>>

ApplyNext ==
    \/ LoadHive \/ ParseFilter \/ SelectNodes \/ Configure
    \/ ExecNode \/ ExecFinish \/ OutputFail \/ OutputFinish \/ JoinReturn

SpecApply == ApplyInit /\ [][ApplyNext]_vars

\* C1: with --no-keys and the goal keys, run never reaches deployment.execute()
\* and no job event of any node is emitted; once the hive is loaded and the
\* nodes are selected, run ends by quitting the process with exit code 1 and
\* never by returning.
C1_NoKeysConflictQuits ==
    (is_present(a_args, "no-keys") /\ a_args.goal = "keys") =>
        /\ a_exec = "idle" /\ a_out = "idle" /\ a_nodeJobs = 0
        /\ a_pc # "join" /\ a_ret # "Ok"
        /\ (a_nTargets >= 0 /\ a_pc \in {"exited", "returned"}) =>
               (a_pc = "exited" /\ a_exit = 1 /\ a_ret = "none")
        /\ a_nTargets >= 0 => a_options.upload_keys = FALSE

C1_Witness ==
    /\ is_present(a_args, "no-keys") /\ a_args.goal = "keys"
    /\ a_pc = "exited" /\ a_exit = 1 /\ a_nTargets > 0 /\ a_nodeJobs = 0

\* C6: the apply limit configured with --parallel 0 is the one configured with
\* --parallel n_targets, for every n_targets (0 included), and with
\* --parallel p > 0 it is p.
C6_ParallelZeroIsNTargets ==
    a_exec # "idle" =>
        /\ a_args.parallel = 0 =>
               /\ a_applyLimit = ApplyLimit(a_nTargets, a_nTargets)
               /\ a_applyLimit = a_nTargets
        /\ a_args.parallel > 0 => a_applyLimit = a_args.parallel

C6_Witness ==
    /\ a_exec = "running" /\ a_args.parallel = 0
    /\ a_nTargets = 2 /\ a_applyLimit = 2

\* C8: when the renderer fails, run returns only after deployment.execute() has
\* completed, and what run returns is an error.
C8_RendererFailureReported ==
    (a_out = "Err" /\ a_pc = "returned") =>
        /\ a_exec \in {"Ok", "Err"}
        /\ a_ret \in {"ErrDeployment", "ErrOutput"}
        /\ a_exec = "Ok" => (a_ret = "ErrOutput" /\ a_nodeJobs = a_nTargets)

C8_Witness ==
    /\ a_pc = "returned" /\ a_out = "Err" /\ a_exec = "Ok"
    /\ a_ret = "ErrOutput" /\ a_nTargets = 2 /\ a_nodeJobs = 2

(***************************************************************************)
(* command/test_progress.rs: run                                           *)
(***************************************************************************)
Jobs == {"meta", "eval", "build"}

\* for i in 0..10
EvalIters == 10

Event(kind, id, info) == [kind |-> kind, id |-> id, info |-> info]

IsTerminal(e) == e.kind \in {"JobSucceeded", "JobFailed"}

\* A JobHandle sends one event into the progress bus.
Emit(e) == p_events' = Append(p_events, e)

\* JobHandle::run on entry: JobStarted, then the body is polled.
RunEnter(id) == Emit(Event("JobStarted", id, "-"))

\* JobHandle::run on exit: JobSucceeded when the body returned Ok, JobFailed
\* with the reason otherwise; the body's result is handed on.
RunExit(id, result) ==
    /\ Emit(IF result = "Ok" THEN Event("JobSucceeded", id, "-")
            ELSE Event("JobFailed", id, result))
    /\ p_res' = [p_res EXCEPT ![id] = result]

\* A meta body that returns Ok(()).
MetaBodyResultOk == "Ok"

\* Err(NixError::Unsupported) as NixResult<()>
MetaBodyResult == "Unsupported"

\* A join that is ready with the first child to complete.
ChildrenJoinedFirst == p_pc["eval"] = "done" \/ p_pc["build"] = "done"

\* tokio::join!(eval, build) has both results.
ChildrenJoined == p_pc["eval"] = "done" /\ p_pc["build"] = "done"

ProgInit ==
    /\ p_pc = [j \in Jobs |-> IF j = "meta" THEN "start" ELSE "idle"]
    /\ p_i = 0
    /\ p_res = [j \in Jobs |-> "none"]
    /\ p_events = <<>>
    /\ p_ret = "none"
    /\ ApplyIdle /\ HostIdle /\ UploadIdle /\ KeyIdle

ProgFrame == UNCHANGED <<applyVars, hostVars, uploadVars, keyVars>>

\* meta.run(..) is polled by the outer join!.
MetaEnter ==
    /\ ProgFrame
    /\ p_pc["meta"] = "start"
    /\ RunEnter("meta")
    /\ p_pc' = [p_pc EXCEPT !["meta"] = "message"]
    /\ UNCHANGED <<p_i, p_res, p_ret>>

\* meta.message("Message from meta job")?
MetaMessage ==
    /\ ProgFrame
    /\ p_pc["meta"] = "message"
    /\ \/ /\ Emit(Event("JobMessage", "meta", "Message from meta job"))
          /\ p_pc' = [p_pc EXCEPT !["meta"] = "create_eval"]
          /\ p_res' = p_res
       \/ /\ RunExit("meta", "SendError")
          /\ p_pc' = [p_pc EXCEPT !["meta"] = "done"]
    /\ UNCHANGED <<p_i, p_ret>>

\* meta.create_job(JobType::Evaluate, nodes)?; eval.run(..) only builds the future.
CreateEval ==
    /\ ProgFrame
    /\ p_pc["meta"] = "create_eval"
    /\ \/ /\ Emit(Event("JobCreated", "eval", "meta"))
          /\ p_pc' = [p_pc EXCEPT !["meta"] = "create_build", !["eval"] = "created"]
          /\ p_res' = p_res
       \/ /\ RunExit("meta", "SendError")
          /\ p_pc' = [p_pc EXCEPT !["meta"] = "done"]
    /\ UNCHANGED <<p_i, p_ret>>

\* meta.create_job(JobType::Build, ..)?; build.run(..); join! is entered. On the
\* error the Evaluate future is dropped without ever being polled.
CreateBuild ==
    /\ ProgFrame
    /\ p_pc["meta"] = "create_build"
    /\ \/ /\ Emit(Event("JobCreated", "build", "meta"))
          /\ p_pc' = [p_pc EXCEPT !["meta"] = "join", !["build"] = "created"]
          /\ p_res' = p_res
       \/ /\ RunExit("meta", "SendError")
          /\ p_pc' = [p_pc EXCEPT !["meta"] = "done", !["eval"] = "dropped"]
    /\ UNCHANGED <<p_i, p_ret>>

\* join! polls eval.run(..) for the first time.
EvalEnter ==
    /\ ProgFrame
    /\ p_pc["meta"] = "join" /\ p_pc["eval"] = "created"
    /\ RunEnter("eval")
    /\ p_pc' = [p_pc EXCEPT !["eval"] = "loop"]
    /\ UNCHANGED <<p_i, p_res, p_ret>>

\* job.message(format!("eval: {}", i))? and the sleep is started.
EvalMessage ==
    /\ ProgFrame
    /\ p_pc["eval"] = "loop" /\ p_i < EvalIters
    /\ \/ /\ Emit(Event("JobMessage", "eval", ToString(p_i)))
          /\ p_pc' = [p_pc EXCEPT !["eval"] = "sleep"]
          /\ p_res' = p_res
       \/ /\ RunExit("eval", "SendError")
          /\ p_pc' = [p_pc EXCEPT !["eval"] = "done"]
    /\ UNCHANGED <<p_i, p_ret>>

\* time::sleep(1 s) elapses; the loop goes on.
EvalWake ==
    /\ ProgFrame
    /\ p_pc["eval"] = "sleep"
    /\ p_i' = p_i + 1
    /\ p_pc' = [p_pc EXCEPT !["eval"] = "loop"]
    /\ UNCHANGED <<p_res, p_events, p_ret>>

\* The loop is over: Ok(())
EvalReturn ==
    /\ ProgFrame
    /\ p_pc["eval"] = "loop" /\ p_i = EvalIters
    /\ RunExit("eval", "Ok")
    /\ p_pc' = [p_pc EXCEPT !["eval"] = "done"]
    /\ UNCHANGED <<p_i, p_ret>>

\* join! polls build.run(..) for the first time; the sleep is started.
BuildEnter ==
    /\ ProgFrame
    /\ p_pc["meta"] = "join" /\ p_pc["build"] = "created"
    /\ RunEnter("build")
    /\ p_pc' = [p_pc EXCEPT !["build"] = "sleep"]
    /\ UNCHANGED <<p_i, p_res, p_ret>>

\* time::sleep(5 s) elapses: Ok(())
BuildReturn ==
    /\ ProgFrame
    /\ p_pc["build"] = "sleep"
    /\ RunExit("build", "Ok")
    /\ p_pc' = [p_pc EXCEPT !["build"] = "done"]
    /\ UNCHANGED <<p_i, p_ret>>

\* join!(eval, build) is ready; the meta body returns its error.
MetaReturn ==
    /\ ProgFrame
    /\ p_pc["meta"] = "join" /\ ChildrenJoined
    /\ RunExit("meta", MetaBodyResult)
    /\ p_pc' = [p_pc EXCEPT !["meta"] = "done"]
    /\ UNCHANGED <<p_i, p_ret>>

\* The outer join! is ready: monitor?; output?; println!; Ok(())
ProgReturn ==
    /\ ProgFrame
    /\ p_pc["meta"] = "done" /\ p_ret = "none"
    /\ \E monitor \in {"Ok", "Err"}, output \in {"Ok", "Err"} :
         p_ret' = IF monitor = "Err" THEN "ErrMonitor"
                  ELSE IF output = "Err" THEN "ErrOutput" ELSE "Ok"
    /\ UNCHANGED <<p_pc, p_i, p_res, p_events>>

ProgNext ==
    \/ MetaEnter \/ MetaMessage \/ CreateEval \/ CreateBuild
    \/ EvalEnter \/ EvalMessage \/ EvalWake \/ EvalReturn
    \/ BuildEnter \/ BuildReturn \/ MetaReturn \/ ProgReturn

SpecProgress == ProgInit /\ [][ProgNext]_vars

\* The events of one run of JobHandle::run: those under the job's id other than
\* the JobCreated its parent sent.
RunEvents(id) ==
    SelectSeq(p_events, LAMBDA e : e.id = id /\ e.kind # "JobCreated")

\* The places in the bus of the terminal events of a job.
TerminalAt(id) ==
    {k \in 1..Len(p_events) : p_events[k].id = id /\ IsTerminal(p_events[k])}

C3_ChildrenEndFirst ==
    /\ \A c \in {"eval", "build"} :
         \A k \in TerminalAt(c) : \A m \in TerminalAt("meta") : k < m
    /\ p_res["meta"] # "none" =>
         \A c \in {"eval", "build"} :
            RunEvents(c) # <<>> => TerminalAt(c) # {}
    /\ p_res["meta"] = "Unsupported" =>
         \A c \in {"eval", "build"} : TerminalAt(c) # {}

C3_Witness ==
    /\ p_res["meta"] = "Unsupported"
    /\ \E k \in TerminalAt("build") : \E m \in TerminalAt("eval") :
         /\ k < m
         /\ \E n \in k..m : p_events[n].kind = "JobMessage"

(***************************************************************************)
(* nix/host/local.rs: Local::activate                                      *)
(***************************************************************************)
\* The profiles activate may be handed, and what the system profile may point
\* at before the call.
Profiles == {"/nix/store/aaa-system", "/nix/store/bbb-system"}
StorePaths == Profiles \cup {"/nix/store/old-system"}

SYSTEM_PROFILE == "/nix/var/nix/profiles/system"

\* An activate without the is_real_goal check.
ActivateRejectsNothing(goal) == FALSE

\* if !goal.is_real_goal() { return Err(NixError::Unsupported) }
ActivateRejects(goal) == ~is_real_goal(goal)

\* An activate that switches the profile whatever the goal.
SwitchesProfileAlways(goal) == TRUE

\* if goal.should_switch_profile() { nix-env --profile .. --set .. }
SwitchesProfile(goal) == should_switch_profile(goal)

\* nix-env --profile SYSTEM_PROFILE --set path
NixEnvSet(path) ==
    [prog |-> "nix-env", args |-> <<"--profile", SYSTEM_PROFILE, "--set", path>>,
     exit |-> "running"]

\* profile.activation_command(goal): the profile's switch-to-configuration with
\* the goal's name as argument, for a real goal.
activation_command(profile, goal) ==
    IF is_real_goal(goal)
    THEN <<profile \o "/bin/switch-to-configuration", goal>>
    ELSE <<>>

\* Command::new(&activation_command[0]).args(&activation_command[1..])
ActivationExec(cmd) ==
    [prog |-> cmd[1], args |-> SubSeq(cmd, 2, Len(cmd)), exit |-> "running"]

\* The last command spawned has exited with the given status.
Exited(cmds, status) == [cmds EXCEPT ![Len(cmds)].exit = status]

HostInit ==
    /\ h_pc = "entry" /\ h_goal \in Goals /\ h_profile \in Profiles
    /\ h_system \in StorePaths /\ h_before = h_system
    /\ h_cmds = <<>> /\ h_running = "none" /\ h_ret = "none"
    /\ ApplyIdle /\ ProgIdle /\ UploadIdle /\ KeyIdle

HostFrame == UNCHANGED <<applyVars, progVars, uploadVars, keyVars>>

\* activation_command(goal).unwrap() and execution.run() is started, after the
\* commands cmds; the unwrap panics when the profile has no activation command
\* for the goal.
StartActivation(cmds) ==
    LET cmd == activation_command(h_profile, h_goal)
    IN  IF cmd = <<>>
        THEN /\ h_pc' = "panicked" /\ h_running' = "none"
             /\ h_cmds' = cmds
        ELSE /\ h_cmds' = Append(cmds, ActivationExec(cmd))
             /\ h_running' = "activation" /\ h_pc' = "activating"

\* activate is called: the goal is checked, and the first command is spawned.
ActivateEntry ==
    /\ HostFrame
    /\ h_pc = "entry"
    /\ IF ActivateRejects(h_goal)
       THEN /\ h_ret' = "Unsupported" /\ h_pc' = "done"
            /\ UNCHANGED <<h_cmds, h_running>>
       ELSE IF SwitchesProfile(h_goal)
       THEN /\ h_cmds' = Append(h_cmds, NixEnvSet(h_profile))
            /\ h_running' = "nix-env" /\ h_pc' = "switching"
            /\ h_ret' = h_ret
       ELSE /\ StartActivation(h_cmds) /\ h_ret' = h_ret
    /\ UNCHANGED <<h_goal, h_profile, h_system, h_before>>

\* nix-env exits with success: the system profile points at the new path, and
\* the activation command is started.
SwitchDone ==
    /\ HostFrame
    /\ h_pc = "switching"
    /\ h_system' = h_profile
    /\ StartActivation(Exited(h_cmds, "Ok"))
    /\ UNCHANGED <<h_goal, h_profile, h_before, h_ret>>

\* nix-env fails: .passthrough().await? returns its error.
SwitchFailed ==
    /\ HostFrame
    /\ h_pc = "switching"
    /\ h_cmds' = Exited(h_cmds, "Err")
    /\ h_running' = "none" /\ h_ret' = "ErrNixEnv" /\ h_pc' = "done"
    /\ UNCHANGED <<h_goal, h_profile, h_system, h_before>>

\* The activation command has exited: execution.run().await is the result.
ActivationExit ==
    /\ HostFrame
    /\ h_pc = "activating"
    /\ \E status \in {"Ok", "Err"} :
         /\ h_cmds' = Exited(h_cmds, status)
         /\ h_ret' = IF status = "Ok" THEN "Ok" ELSE "ErrActivation"
    /\ h_running' = "none" /\ h_pc' = "done"
    /\ UNCHANGED <<h_goal, h_profile, h_system, h_before>>

HostNext == ActivateEntry \/ SwitchDone \/ SwitchFailed \/ ActivationExit

SpecActivate == HostInit /\ [][HostNext]_vars

\* The places in h_cmds of the profile switch and of the activation command.
NixEnvAt == {k \in 1..Len(h_cmds) : h_cmds[k].prog = "nix-env"}
ActivationAt == {k \in 1..Len(h_cmds) : h_cmds[k].prog # "nix-env"}

\* What activate returns for the exit status of the activation command.
ResultOf(status) == IF status = "Ok" THEN "Ok" ELSE "ErrActivation"

\* C4 as stated: for a real goal, activate has switched the system profile iff
\* the goal should switch the profile, the activation command was invoked after
\* the switch, and activate returns only after the activation command has
\* exited, with that command's result.
C4_AsStated ==
    (is_real_goal(h_goal) /\ h_pc = "done") =>
        /\ (NixEnvAt # {}) <=> should_switch_profile(h_goal)
        /\ \A k \in NixEnvAt : \A m \in ActivationAt : k < m
        /\ ActivationAt = {Len(h_cmds)}
        /\ h_cmds[Len(h_cmds)].exit \in {"Ok", "Err"}
        /\ h_ret = ResultOf(h_cmds[Len(h_cmds)].exit)

\* C4, amended: for a real goal, nix-env --set is run (first, and once) iff the
\* goal should switch the profile; the activation command is started only after
\* nix-env has exited with success, when the system profile points at the new
\* path; activate then returns only after the activation command has exited,
\* with its result. When nix-env fails, activate returns that error and the
\* activation command is not invoked. Without a switch the system profile is
\* left as it was.
C4_SwitchThenActivate ==
    (is_real_goal(h_goal) /\ h_pc # "entry") =>
        /\ (NixEnvAt # {}) <=> should_switch_profile(h_goal)
        /\ \A k \in NixEnvAt :
             /\ k = 1
             /\ h_cmds[k].args = <<"--profile", SYSTEM_PROFILE, "--set", h_profile>>
        /\ \A k \in NixEnvAt : \A m \in ActivationAt :
             k < m /\ h_cmds[k].exit = "Ok" /\ h_system = h_profile
        /\ \A m \in ActivationAt :
             /\ m = Len(h_cmds)
             /\ h_cmds[m].args = <<h_goal>>
        /\ ~should_switch_profile(h_goal) => h_system = h_before
        /\ h_pc \in {"switching", "activating", "done"}
        /\ h_pc = "done" =>
             IF NixEnvAt # {} /\ h_cmds[1].exit = "Err"
             THEN h_ret = "ErrNixEnv" /\ ActivationAt = {} /\ h_system = h_before
             ELSE /\ ActivationAt = {Len(h_cmds)}
                  /\ h_cmds[Len(h_cmds)].exit \in {"Ok", "Err"}
                  /\ h_ret = ResultOf(h_cmds[Len(h_cmds)].exit)
        /\ h_pc # "done" => h_ret = "none"

C4_Witness ==
    /\ h_goal = "boot" /\ h_pc = "done" /\ h_ret = "ErrActivation"
    /\ Len(h_cmds) = 2 /\ h_cmds[1].exit = "Ok" /\ h_cmds[2].exit = "Err"
    /\ h_system = h_profile /\ h_before # h_profile

\* C5: for a goal that is not a real goal, activate returns Unsupported at once:
\* no command is spawned and the system profile is left as it was.
C5_UnrealGoalUnsupported ==
    (~is_real_goal(h_goal) /\ h_pc # "entry") =>
        /\ h_pc = "done" /\ h_ret = "Unsupported"
        /\ h_cmds = <<>> /\ h_running = "none" /\ h_system = h_before

C5_Witness ==
    /\ h_goal = "keys" /\ h_pc = "done" /\ h_ret = "Unsupported"
    /\ h_cmds = <<>>

(***************************************************************************)
(* nix/host/local.rs: Local::upload_keys, Local::upload_key                *)
(***************************************************************************)
MaxKeys == 3

\* The names a key map may hold.
KeyNames == 1..MaxKeys

Running == [kind |-> "none", key |-> 0, at |-> "-"]
UploadOk == [kind |-> "Ok", key |-> 0, at |-> "-"]
UploadErr(name, at) == [kind |-> "Err", key |-> name, at |-> at]

RangeOf(seq) == {seq[k] : k \in 1..Len(seq)}

\* An upload_keys that goes on to the next key after an error.
KeyErrorIgnored(name, at) ==
    /\ u_ret' = u_ret /\ u_pc' = "iter" /\ u_cur' = 0

\* The ? of upload_keys and of upload_key: the error of one key is returned
\* from upload_keys at once.
KeyError(name, at) ==
    /\ u_ret' = UploadErr(name, at) /\ u_pc' = "done" /\ u_cur' = u_cur

UploadInit ==
    /\ u_pc = "iter" /\ u_job \in BOOLEAN /\ u_keys \in SUBSET KeyNames
    /\ u_todo = u_keys /\ u_cur = 0 /\ u_tried = <<>> /\ u_done = {}
    /\ u_ret = Running
    /\ ApplyIdle /\ ProgIdle /\ HostIdle /\ KeyIdle

UploadFrame == UNCHANGED <<applyVars, progVars, hostVars, keyVars>>

\* for (name, key) in keys: the map's iterator yields the next entry, in the
\* order of the HashMap, and upload_key is called for it.
NextKey ==
    /\ UploadFrame
    /\ u_pc = "iter" /\ u_todo # {}
    /\ \E name \in u_todo :
         /\ u_cur' = name
         /\ u_todo' = u_todo \ {name}
         /\ u_tried' = Append(u_tried, name)
    /\ u_pc' = "message"
    /\ UNCHANGED <<u_job, u_keys, u_done, u_ret>>

\* if let Some(job) = &self.job { job.message(..)? }
KeyMessage ==
    /\ UploadFrame
    /\ u_pc = "message"
    /\ \/ /\ u_pc' = "spawn" /\ UNCHANGED <<u_ret, u_cur>>
       \/ /\ u_job /\ KeyError(u_cur, "message")
    /\ UNCHANGED <<u_job, u_keys, u_todo, u_tried, u_done>>

\* The script is generated and sh is spawned: command.spawn()?
KeySpawn ==
    /\ UploadFrame
    /\ u_pc = "spawn"
    /\ \/ /\ u_pc' = "feed" /\ UNCHANGED <<u_ret, u_cur>>
       \/ KeyError(u_cur, "spawn")
    /\ UNCHANGED <<u_job, u_keys, u_todo, u_tried, u_done>>

\* key_uploader::feed_uploader(..).await is upload_key's result.
KeyFeed ==
    /\ UploadFrame
    /\ u_pc = "feed"
    /\ \/ /\ u_done' = u_done \cup {u_cur}
          /\ u_pc' = "iter" /\ u_cur' = 0 /\ u_ret' = u_ret
       \/ /\ KeyError(u_cur, "feed") /\ u_done' = u_done
    /\ UNCHANGED <<u_job, u_keys, u_todo, u_tried>>

\* The iterator is exhausted: Ok(())
UploadReturn ==
    /\ UploadFrame
    /\ u_pc = "iter" /\ u_todo = {}
    /\ u_ret' = UploadOk /\ u_pc' = "done"
    /\ UNCHANGED <<u_job, u_keys, u_todo, u_cur, u_tried, u_done>>

UploadNext == NextKey \/ KeyMessage \/ KeySpawn \/ KeyFeed \/ UploadReturn

SpecUpload == UploadInit /\ [][UploadNext]_vars

\* C10: keys are uploaded one at a time, each at most once; when upload_keys
\* returns an error it is the error of the key tried last, every key tried
\* before it was uploaded and no other key was tried; it returns Ok only with
\* every key of the map uploaded, and for an empty map without any upload.
C10_UploadKeysFailFast ==
    /\ Cardinality(RangeOf(u_tried)) = Len(u_tried)
    /\ RangeOf(u_tried) \cup u_todo = u_keys
    /\ RangeOf(u_tried) \cap u_todo = {}
    /\ u_done \subseteq RangeOf(u_tried)
    /\ \A k \in 1..(Len(u_tried) - 1) : u_tried[k] \in u_done
    /\ u_pc = "done" <=> u_ret.kind # "none"
    /\ u_ret.kind = "Err" =>
         /\ u_tried # <<>>
         /\ u_ret.key = u_tried[Len(u_tried)]
         /\ u_done = RangeOf(u_tried) \ {u_ret.key}
         /\ u_ret.at = "message" => u_job
    /\ u_ret.kind = "Ok" => (u_done = u_keys /\ u_todo = {})
    /\ (u_keys = {} /\ u_pc = "done") => (u_ret = UploadOk /\ u_tried = <<>>)

C10_Witness ==
    /\ u_ret.kind = "Err" /\ u_ret.at = "spawn" /\ Len(u_tried) = 2
    /\ Cardinality(u_done) = 1 /\ Cardinality(u_todo) = 1

(***************************************************************************)
(* nix/key.rs: KeySources, KeySource, Key                                  *)
(***************************************************************************)
\* Option<T>: None is the empty sequence, Some(v) is <<v>>.
Some(v) == <<v>>
NoValue == <<>>
Option(S) == {NoValue} \cup {Some(v) : v \in S}

Texts == {"s3cret", ""}
KeyCommands == {<<"pass", "show", "key">>, <<"cat">>}
KeyFiles == {"/run/keys/a", "rel/b"}
DestDirs == {"/run/keys", "/var/keys"}
UnixNames == {"root", "nginx-1"}
Permissions == {"0600"}

\* struct KeySources, as serde decodes it.
KeySources == [text : Option(Texts), command : Option(KeyCommands),
               file : Option(KeyFiles)]

Rejected == [ok |-> FALSE, variant |-> "-", value |-> "-"]
Accepted(variant, value) == [ok |-> TRUE, variant |-> variant, value |-> value]

\* A try_from that takes the first source given.
try_from_first(ks) ==
    IF ks.text # NoValue THEN Accepted("Text", ks.text[1])
    ELSE IF ks.command # NoValue THEN Accepted("Command", ks.command[1])
    ELSE IF ks.file # NoValue THEN Accepted("File", ks.file[1])
    ELSE Rejected

\* impl TryFrom<KeySources> for KeySource
try_from(ks) ==
    IF ks.text # NoValue /\ ks.command = NoValue /\ ks.file = NoValue
    THEN Accepted("Text", ks.text[1])
    ELSE IF ks.text = NoValue /\ ks.command # NoValue /\ ks.file = NoValue
    THEN Accepted("Command", ks.command[1])
    ELSE IF ks.text = NoValue /\ ks.command = NoValue /\ ks.file # NoValue
    THEN Accepted("File", ks.file[1])
    ELSE Rejected

\* Key's accessors.
dest_dir(key) == key.dest_dir
user(key) == key.user
group(key) == key.user
permissions(key) == key.permissions

KeyInit ==
    /\ k_pc = "sources" /\ k_sources \in KeySources
    /\ k_rest \in [dest_dir : DestDirs, user : UnixNames, group : UnixNames,
                   permissions : Permissions]
    /\ k_key = None /\ k_call = "none" /\ k_out = None
    /\ ApplyIdle /\ ProgIdle /\ HostIdle /\ UploadIdle

KeyFrame == UNCHANGED <<applyVars, progVars, hostVars, uploadVars>>

\* serde decodes a Key: its source through KeySource::try_from (serde's
\* try_from = "KeySources"), the other fields as they are.
Decode ==
    /\ KeyFrame
    /\ k_pc = "sources"
    /\ LET r == try_from(k_sources)
       IN  IF r.ok
           THEN /\ k_key' = [source |-> [variant |-> r.variant, value |-> r.value],
                             dest_dir |-> k_rest.dest_dir, user |-> k_rest.user,
                             group |-> k_rest.group,
                             permissions |-> k_rest.permissions]
                /\ k_pc' = "key" /\ k_out' = k_out
           ELSE /\ k_pc' = "rejected" /\ k_key' = k_key
                /\ k_out' = "Somehow 0 or more than 1 key source was specified"
    /\ UNCHANGED <<k_sources, k_rest, k_call>>

\* One of the accessors is called on the key.
Access ==
    /\ KeyFrame
    /\ k_pc = "key"
    /\ \E f \in {"dest_dir", "user", "group", "permissions"} :
         /\ k_call' = f
         /\ k_out' = CASE f = "dest_dir" -> dest_dir(k_key)
                       [] f = "user" -> user(k_key)
                       [] f = "group" -> group(k_key)
                       [] f = "permissions" -> permissions(k_key)
    /\ UNCHANGED <<k_pc, k_sources, k_rest, k_key>>

KeyNext == Decode \/ Access

SpecKey == KeyInit /\ [][KeyNext]_vars

\* C7: group() returns the key's group field.
C7_GroupReturnsGroup ==
    (k_pc = "key" /\ k_call = "group") => k_out = k_key.group

\* How many of the three sources are given.
Given(ks) ==
    (IF ks.text # NoValue THEN 1 ELSE 0) + (IF ks.command # NoValue THEN 1 ELSE 0)
    + (IF ks.file # NoValue THEN 1 ELSE 0)

\* C9: a key specification is accepted iff exactly one of text, keyCommand and
\* keyFile is given, the KeySource is then the variant of the one given, with
\* its value; with none or with several given it is rejected with an error and
\* no key is built.
C9_ExactlyOneSource ==
    k_pc # "sources" =>
        /\ k_pc = "key" <=> Given(k_sources) = 1
        /\ k_pc = "rejected" <=> Given(k_sources) # 1
        /\ k_pc = "key" =>
             /\ k_sources.text # NoValue =>
                  (k_key.source.variant = "Text"
                   /\ k_key.source.value = k_sources.text[1])
             /\ k_sources.command # NoValue =>
                  (k_key.source.variant = "Command"
                   /\ k_key.source.value = k_sources.command[1])
             /\ k_sources.file # NoValue =>
                  (k_key.source.variant = "File"
                   /\ k_key.source.value = k_sources.file[1])
        /\ k_pc = "rejected" => (k_call = "none" /\ k_out # None)

C9_Witness ==
    /\ k_pc = "key" /\ k_sources.command = Some(<<"pass", "show", "key">>)
    /\ k_key.source.variant = "Command"
    /\ k_key.source.value = <<"pass", "show", "key">>

====
